---- MODULE Spec2Model ----
(***************************************************************************)
(* A model of crossref_bot.py: the reference-resolution pipeline           *)
(* (find_and_cite_reference), the query builder (_build_api_params), the   *)
(* registry client boundary (search_crossref_api,                          *)
(* get_apa_citation_from_doi) and the incremental query (get_new_works).   *)
(*                                                                         *)
(* Python values are represented as follows.                               *)
(*   dict            a function whose DOMAIN is the set of keys present    *)
(*   list / str      a sequence (a str is a sequence of one-char strings   *)
(*                   where its characters matter, a TLA+ string where it   *)
(*                   is only compared or passed on)                        *)
(*   None            the string "None" for optional strings; a             *)
(*                   [none |-> ...] wrapper for optional lists             *)
(*   float           <<n, d, u>>: the double u units in the last place     *)
(*                   away from the double nearest to the rational n/d      *)
(***************************************************************************)
EXTENDS Integers, Sequences, FiniteSets, TLC

VARIABLES
    pc,                    \* per call: position in find_and_cite_reference
    path,                  \* per call: the positions passed so far (history)
    reference_text,        \* per call: argument
    expected_title,        \* per call: argument (<<>> stands for None / "")
    parsed_authors,        \* per call: local
    parsed_year,           \* per call: local
    title_to_match_against,\* per call: local
    results,               \* per call: what search_crossref_api returned
    idx,                   \* per call: position of the for loop over results
    best_match_item,       \* per call: reference into heap, 0 for None
    highest_overall_score, \* per call: local
    doi,                   \* per call: local
    citation,              \* per call: local, what the citation fetch returned
    outcome,               \* per call: the returned value or the raised error
    heap,                  \* the candidate objects handed out by the registry
    requests_log,          \* every request issued to the registry, in order
    gnw_pc,                \* position in get_new_works
    search_criteria_params,\* get_new_works argument, as passed by the caller
    caller_criteria,       \* the caller's mapping object the argument refers to
    since_datetime_str,    \* get_new_works argument
    date_type,             \* get_new_works argument
    rows,                  \* get_new_works argument
    params_for_new_works,  \* get_new_works local: the copy
    gnw_result,            \* what get_new_works returned or raised
    year_pc,               \* position in _parse_year_from_reference
    year_ref,              \* _parse_year_from_reference argument, as characters
    year_result            \* what _parse_year_from_reference returned

cite_vars == <<pc, path, reference_text, expected_title, parsed_authors,
               parsed_year, title_to_match_against, results, idx,
               best_match_item, highest_overall_score, doi, citation, outcome,
               heap>>

gnw_vars == <<gnw_pc, search_criteria_params, caller_criteria,
              since_datetime_str, date_type, rows, params_for_new_works,
              gnw_result>>

year_vars == <<year_pc, year_ref, year_result>>

vars == <<cite_vars, gnw_vars, year_vars, requests_log>>

-----------------------------------------------------------------------------
(* Bounds *)

\* Longest candidate sequence the registry stub returns.
MaxResults == 2

-----------------------------------------------------------------------------
(* Python helpers *)

None == "None"

EmptyDict == [k \in {} |-> 0]

\* dict.get(k, default)
Get(d, k, default) == IF k \in DOMAIN d THEN d[k] ELSE default

\* truthiness of an optional str
Truthy(s) == s # None /\ s # ""

Calls == {1, 2}

-----------------------------------------------------------------------------
(* Exact rationals standing for the floats of the scorer *)

RECURSIVE GCD(_, _)
GCD(a, b) == IF b = 0 THEN a ELSE GCD(b, a % b)

Abs(n) == IF n < 0 THEN -n ELSE n

RNorm(n, d) == LET g == GCD(Abs(n), d) IN <<n \div g, d \div g>>

RAdd(x, y) == RNorm(x[1] * y[2] + y[1] * x[2], x[2] * y[2])
RMul(x, y) == RNorm(x[1] * y[1], x[2] * y[2])
RLess(x, y) == x[1] * y[2] < y[1] * x[2]

\* f"{x:.2f}": the score rounded to hundredths (ties to even), as the
\* number of hundredths.
Fmt2(x) ==
    LET q == (100 * x[1]) \div x[2]
        r == (100 * x[1]) % x[2]
    IN  IF 2 * r > x[2] THEN q + 1
        ELSE IF 2 * r < x[2] THEN q
        ELSE IF q % 2 = 0 THEN q ELSE q + 1

-----------------------------------------------------------------------------
(* Strings as character sequences: normalisation and similarity *)

LowerCh(ch) ==
    CASE ch = "A" -> "a"
      [] ch = "B" -> "b"
      [] ch = "C" -> "c"
      [] ch = "L" -> "l"
      [] OTHER -> ch

IsSpace(ch) == ch = " "
IsWordCh(ch) == ch \in {"a", "b", "c", "i", "l", "A", "B", "C", "L"}

\* str.lower()
Lower(s) == [i \in 1..Len(s) |-> LowerCh(s[i])]

\* str.strip()
RECURSIVE LStrip(_)
LStrip(s) == IF s # <<>> /\ IsSpace(Head(s)) THEN LStrip(Tail(s)) ELSE s
RECURSIVE RStrip(_)
RStrip(s) ==
    IF s # <<>> /\ IsSpace(s[Len(s)]) THEN RStrip(SubSeq(s, 1, Len(s) - 1))
    ELSE s
Strip(s) == RStrip(LStrip(s))

\* re.sub(r'[^\w\s]', '', s)
RemoveNonWord(s) == SelectSeq(s, LAMBDA ch : IsWordCh(ch) \/ IsSpace(ch))

\* s.lower().strip() followed by the re.sub
NormalizeTitle(s) == RemoveNonWord(Strip(Lower(s)))

\* difflib.SequenceMatcher: indices are 0-based and half open as in Python.
RECURSIVE RunLen(_, _, _, _, _, _)
RunLen(a, b, i, j, ahi, bhi) ==
    IF i < ahi /\ j < bhi /\ a[i + 1] = b[j + 1]
    THEN 1 + RunLen(a, b, i + 1, j + 1, ahi, bhi)
    ELSE 0

\* find_longest_match: the longest block, earliest in a, then earliest in b.
FindLongestMatch(a, b, alo, ahi, blo, bhi) ==
    LET starts == (alo..(ahi - 1)) \X (blo..(bhi - 1))
        k == [p \in starts |-> RunLen(a, b, p[1], p[2], ahi, bhi)]
        better(p, q) == \/ k[p] > k[q]
                        \/ k[p] = k[q] /\ p[1] < q[1]
                        \/ k[p] = k[q] /\ p[1] = q[1] /\ p[2] <= q[2]
    IN  IF starts = {} THEN <<alo, blo, 0>>
        ELSE LET p == CHOOSE p \in starts : \A q \in starts : better(p, q)
             IN  IF k[p] = 0 THEN <<alo, blo, 0>> ELSE <<p[1], p[2], k[p]>>

\* sum of the sizes of get_matching_blocks
RECURSIVE MatchCount(_, _, _, _, _, _)
MatchCount(a, b, alo, ahi, blo, bhi) ==
    LET m == FindLongestMatch(a, b, alo, ahi, blo, bhi)
    IN  IF m[3] = 0 THEN 0
        ELSE m[3] + MatchCount(a, b, alo, m[1], blo, m[2])
                  + MatchCount(a, b, m[1] + m[3], ahi, m[2] + m[3], bhi)

\* SequenceMatcher(None, a, b).ratio()
Ratio(a, b) ==
    IF Len(a) + Len(b) = 0 THEN <<1, 1>>
    ELSE RNorm(2 * MatchCount(a, b, 0, Len(a), 0, Len(b)), Len(a) + Len(b))

-----------------------------------------------------------------------------
(* Inputs of find_and_cite_reference *)

\* The reference strings of the model.
RefOne     == "Li (1948) ab In x"
RefTwo     == "Li & Wu (1948) ab In x"
RefBare    == "ab"
RefDots    == "..."
RefYear    == "(1948) ab In x"
RefQuote   == "Li 'ab'"

ReferenceTexts == {RefOne, RefTwo, RefBare, RefDots, RefYear, RefQuote}

\* Caller-supplied expected titles; <<>> is "not supplied".
ExpectedTitles == {<<>>, <<"A", "b">>}

\* _parse_authors_from_reference on the modelled reference strings; the
\* list(set(...)) it returns is unordered, hence a set.
_parse_authors_from_reference(ref_string) ==
    CASE ref_string \in {RefOne, RefQuote} -> {"Li"}
      [] ref_string = RefTwo     -> {"Li", "Wu"}
      [] OTHER                   -> {}

\* _parse_year_from_reference on the modelled reference strings.
_parse_year_from_reference(ref_string) ==
    CASE ref_string \in {RefOne, RefTwo, RefYear} -> "1948"
      [] OTHER -> None

\* _parse_title_from_reference on the modelled reference strings.
_parse_title_from_reference(ref_string, authors, year) ==
    CASE ref_string = RefDots -> <<>>
      [] ref_string = RefQuote -> <<"L", "i", " ", "'", "a", "b", "'">>
      [] OTHER -> <<"a", "b">>

\* str.lower() on the surnames of the model.
LowerName(n) ==
    CASE n = "Li" -> "li"
      [] n = "LI" -> "li"
      [] n = "Wu" -> "wu"
      [] OTHER -> n

\* str(year) for the years the registry stub reports.
YearStr(y) ==
    CASE y = 1948 -> "1948"
      [] y = 1950 -> "1950"

\* JSON null inside date-parts.
JsonNull == -1

-----------------------------------------------------------------------------
(* The registry stub: candidate items and responses *)

TitleAb  == <<"A", "b", ".">>
TitleAc  == <<"a", "c">>

DateOf(y) == "date-parts" :> << <<y>> >>

Matched == ("author" :> <<[family |-> "LI"]>>) @@ ("created" :> DateOf(1948))

MatchShapes == {EmptyDict, Matched}

\* Items with an empty, an equal and a different title, with and without
\* matching author and year, with and without DOI or title.
PlainItems ==
    {("title" :> t) @@ m @@ ("DOI" :> "10.1/a") :
        t \in {<<>>, <<TitleAb>>, <<TitleAc>>}, m \in MatchShapes}
    \cup {("title" :> <<TitleAb>>) @@ m : m \in MatchShapes}
    \cup {Matched @@ ("DOI" :> "10.1/a")}

\* Items that differ in the shape of their date sources, authors and title.
OddItems ==
    LET base == ("title" :> <<TitleAb>>) @@ ("DOI" :> "10.1/b")
                 @@ ("author" :> <<[family |-> "Wu"], [family |-> "LI"]>>)
    IN  { base @@ ("published-print" :> ("date-parts" :> <<>>))
               @@ ("created" :> DateOf(1948)),
          base @@ ("published-print" :> ("date-parts" :> << <<>> >>))
               @@ ("published-online" :> DateOf(1948)),
          base @@ ("published-print" :> DateOf(1950))
               @@ ("created" :> DateOf(1948)),
          base @@ ("published-print" :> ("date-parts" :> << <<JsonNull>> >>))
               @@ ("created" :> DateOf(1948)),
          ("title" :> << <<>> >>) @@ ("DOI" :> "10.1/b")
               @@ ("author" :> <<EmptyDict>>)
               @@ ("published-online" :> EmptyDict) }

Candidates == PlainItems \cup OddItems

SeqsUpTo(S, n) == UNION {[1..k -> S] : k \in 0..n}

\* What search_crossref_api can return: None, or a list of items.
SearchReturns ==
    {[none |-> TRUE, items |-> <<>>]}
        \cup {[none |-> FALSE, items |-> s] : s \in SeqsUpTo(Candidates, MaxResults)}

\* What get_apa_citation_from_doi can return: None, or the response text.
CitationReturns == {None, "", "Li. (1948). Ab.", "Wu. (1950). Ac."}

-----------------------------------------------------------------------------
(* The candidate scorer: the body of the for loop of find_and_cite_reference *)

\* current_item_title_str
CurrentItemTitleStr(item) ==
    LET item_title_list == Get(item, "title", <<>>)
    IN  IF item_title_list # <<>> /\ item_title_list[1] # <<>>
        THEN item_title_list[1]
        ELSE <<>>

\* normalized_input_title
NormalizedInputTitle(title) ==
    IF title # <<>> THEN NormalizeTitle(title) ELSE <<>>

TitleScore(item, title) ==
    LET normalized_input_title == NormalizedInputTitle(title)
        normalized_item_title == NormalizeTitle(CurrentItemTitleStr(item))
    IN  IF normalized_input_title # <<>> /\ normalized_item_title # <<>>
        THEN Ratio(normalized_input_title, normalized_item_title)
        ELSE <<0, 1>>

\* item_author_last_names
ItemAuthorLastNames(item) ==
    LET item_authors_list == Get(item, "author", <<>>)
    IN  {LowerName(item_authors_list[i].family) :
            i \in {j \in 1..Len(item_authors_list) :
                     /\ "family" \in DOMAIN item_authors_list[j]
                     /\ Truthy(item_authors_list[j].family)}}

AuthorScoreNoNeutral(item, authors) ==
    LET item_authors_list == Get(item, "author", <<>>)
        match_count == Cardinality({pa \in authors :
                          LowerName(pa) \in ItemAuthorLastNames(item)})
    IN  IF authors # {} /\ item_authors_list # <<>>
        THEN RNorm(match_count, Cardinality(authors))
        ELSE <<0, 1>>

AuthorScore(item, authors) ==
    LET item_authors_list == Get(item, "author", <<>>)
        match_count == Cardinality({pa \in authors :
                          LowerName(pa) \in ItemAuthorLastNames(item)})
    IN  IF authors # {} /\ item_authors_list # <<>>
        THEN RNorm(match_count, Cardinality(authors))
        ELSE IF authors = {} THEN <<1, 2>>
        ELSE <<0, 1>>

YearSourceKeys == <<"published-print", "published-online", "created">>

\* item.get(key, {}).get("date-parts", [[]])
DateParts(item, key) ==
    Get(Get(item, key, EmptyDict), "date-parts", << <<>> >>)

\* api_year_str: indexing an empty date-parts raises IndexError, which the
\* try block turns into "N/A" for the whole item.
ApiYearStr(item) ==
    IF \E k \in 1..3 : DateParts(item, YearSourceKeys[k]) = <<>>
    THEN "N/A"
    ELSE LET year_sources == [k \in 1..3 |-> DateParts(item, YearSourceKeys[k])[1]]
             usable == {k \in 1..3 : /\ year_sources[k] # <<>>
                                     /\ year_sources[k][1] # JsonNull}
         IN  IF usable = {} THEN "N/A"
             ELSE YearStr(year_sources[CHOOSE k \in usable :
                                         \A l \in usable : k <= l][1])

YearScore(item, year) ==
    IF year # None /\ ApiYearStr(item) = year THEN <<1, 1>>
    ELSE IF year = None THEN <<1, 2>>
    ELSE <<0, 1>>

\* title_weight, author_weight, year_weight
TitleWeightSwapped(expected) == IF expected THEN <<4, 10>> ELSE <<6, 10>>
TitleWeight(expected) == IF expected THEN <<6, 10>> ELSE <<4, 10>>
AuthorWeight == <<3, 10>>
YearWeightHalf(expected) == <<5, 10>>
YearWeight(expected) == IF expected THEN <<1, 10>> ELSE <<3, 10>>

\* The weighted sum of lines 340-342 over the reals.
WeightedSum(expected, title_score, author_score, year_score) ==
    RAdd(RAdd(RMul(TitleWeight(expected), title_score),
              RMul(AuthorWeight, author_score)),
         RMul(YearWeight(expected), year_score))

\* The component scores on which the rounding of the float expression is
\* tabulated below.
TabulatedScores ==
    {<<0, 1>>, <<2, 7>>, <<1, 2>>, <<4, 7>>, <<1, 1>>}
        \X {<<0, 1>>, <<1, 2>>, <<1, 1>>}
        \X {<<0, 1>>, <<1, 2>>, <<1, 1>>}

\* IEEE-754 double evaluation of
\*   (title_weight * title_score) + (author_weight * author_score)
\*       + (year_weight * year_score):
\* the distance, in units in the last place, of the double it yields from
\* the double nearest to the exact weighted sum.
RoundingUlps(expected, title_score, author_score, year_score) ==
    LET x == <<expected, title_score, author_score, year_score>>
    IN
        CASE x = <<TRUE, <<2, 7>>, <<0, 1>>, <<0, 1>>>> -> -1
          [] x = <<TRUE, <<2, 7>>, <<1, 2>>, <<0, 1>>>> -> -1
          [] x = <<TRUE, <<2, 7>>, <<1, 2>>, <<1, 2>>>> -> -1
          [] x = <<TRUE, <<2, 7>>, <<1, 2>>, <<1, 1>>>> -> -1
          [] x = <<TRUE, <<1, 2>>, <<1, 2>>, <<0, 1>>>> -> -1
          [] x = <<TRUE, <<1, 2>>, <<1, 2>>, <<1, 2>>>> -> -1
          [] x = <<TRUE, <<1, 2>>, <<1, 2>>, <<1, 1>>>> -> -1
          [] x = <<TRUE, <<4, 7>>, <<0, 1>>, <<0, 1>>>> -> -1
          [] x = <<TRUE, <<4, 7>>, <<0, 1>>, <<1, 2>>>> -> -1
          [] x = <<TRUE, <<4, 7>>, <<1, 2>>, <<0, 1>>>> -> -2
          [] x = <<TRUE, <<4, 7>>, <<1, 2>>, <<1, 1>>>> -> -1
          [] x = <<TRUE, <<4, 7>>, <<1, 1>>, <<0, 1>>>> -> -1
          [] x = <<TRUE, <<4, 7>>, <<1, 1>>, <<1, 1>>>> -> -1
          [] x = <<TRUE, <<1, 1>>, <<1, 1>>, <<0, 1>>>> -> -1
          [] x = <<TRUE, <<1, 1>>, <<1, 1>>, <<1, 1>>>> -> -1
          [] x = <<FALSE, <<0, 1>>, <<1, 2>>, <<1, 1>>>> -> -1
          [] x = <<FALSE, <<0, 1>>, <<1, 1>>, <<1, 2>>>> -> -1
          [] x = <<FALSE, <<2, 7>>, <<0, 1>>, <<1, 1>>>> -> -1
          [] x = <<FALSE, <<2, 7>>, <<1, 2>>, <<1, 2>>>> -> -1
          [] x = <<FALSE, <<2, 7>>, <<1, 1>>, <<0, 1>>>> -> -1
          [] x = <<FALSE, <<2, 7>>, <<1, 1>>, <<1, 1>>>> -> -1
          [] x = <<FALSE, <<1, 2>>, <<1, 2>>, <<1, 1>>>> -> -1
          [] x = <<FALSE, <<4, 7>>, <<1, 1>>, <<1, 1>>>> -> -1
          [] x = <<FALSE, <<1, 1>>, <<1, 2>>, <<1, 2>>>> -> 1
          [] x = <<FALSE, <<1, 1>>, <<1, 2>>, <<1, 1>>>> -> 1
          [] <<title_score, author_score, year_score>> \in TabulatedScores -> 0

\* A float score is <<n, d, u>>: the double u units in the last place away
\* from the double nearest to n/d.
FLess(x, y) ==
    \/ RLess(<<x[1], x[2]>>, <<y[1], y[2]>>)
    \/ x[1] = y[1] /\ x[2] = y[2] /\ x[3] < y[3]
FGeq(x, y) == ~FLess(x, y)

\* f"{x:.2f}" of a float score; no modelled score lies halfway between two
\* hundredths, where the rounding error would decide.
FmtScoreTruncated(x) == (100 * x[1]) \div x[2]
FmtScore(x) == Fmt2(<<x[1], x[2]>>)

OverallScore(item, authors, year, title, expected) ==
    LET title_score == TitleScore(item, title)
        author_score == AuthorScore(item, authors)
        year_score == YearScore(item, year)
        exact == WeightedSum(expected # <<>>, title_score, author_score, year_score)
    IN  <<exact[1], exact[2],
          RoundingUlps(expected # <<>>, title_score, author_score, year_score)>>

\* the float literal 0.65, the double nearest to 13/20
ThresholdRaised == <<17, 20, 0>>
CONFIDENCE_THRESHOLD == <<13, 20, 0>>

\* best_match_item.get('title', [""])[0] raises IndexError on an empty
\* title list.
TitleRaises(item) == Get(item, "title", << <<>> >>) = <<>>

\* best_match_item.get('title', [""])[0] where it does not raise
FirstTitle(item) == Get(item, "title", << <<>> >>)[1]

-----------------------------------------------------------------------------
(* The query builder and the registry client *)

DEFAULT_MAILTO_EMAIL == "anonymous@example.com"

\* urllib.parse.quote_plus on the filter values of the model
QuotePlus(v) ==
    CASE v = "book chapter" -> "book+chapter"
      [] OTHER -> v

HasStr(d, k) == k \in DOMAIN d /\ Truthy(d[k])
HasSeq(d, k) == k \in DOMAIN d /\ d[k] # <<>>

\* A filter string is the sequence of its comma-separated clauses.
Clause(k, v) == [key |-> k, val |-> v]

\* f"{pub_year_from}-01-01" and f"{pub_year_to}-12-31" on the years of the model
FirstDayOf(y) ==
    CASE y = "1948" -> "1948-01-01"
      [] y = "2019" -> "2019-01-01"

LastDayOf(y) ==
    CASE y = "1948" -> "1948-12-31"
      [] y = "2019" -> "2019-12-31"
      [] y = "2021" -> "2021-12-31"

\* the from-pub-date / until-pub-date clauses
PubDateFilters(search_params) ==
    LET pub_year_from == Get(search_params, "publication_year_from", None)
        pub_year_to == Get(search_params, "publication_year_to", None)
    IN  IF Truthy(pub_year_from) /\ Truthy(pub_year_to)
        THEN <<Clause("from-pub-date", FirstDayOf(pub_year_from)),
               Clause("until-pub-date", LastDayOf(pub_year_to))>>
        ELSE IF Truthy(pub_year_from)
        THEN <<Clause("from-pub-date", FirstDayOf(pub_year_from))>>
        ELSE IF Truthy(pub_year_to)
        THEN <<Clause("until-pub-date", LastDayOf(pub_year_to))>>
        ELSE <<>>

\* the list `filters` of _build_api_params, as joined by ",".join(filters)
ApiFilters(search_params) ==
    (IF HasStr(search_params, "issn")
     THEN <<Clause("issn", QuotePlus(search_params["issn"]))>> ELSE <<>>)
    \o PubDateFilters(search_params)
    \o (IF HasStr(search_params, "funding_agency_doi")
        THEN <<Clause("funder", QuotePlus(search_params["funding_agency_doi"]))>>
        ELSE <<>>)
    \o (IF HasStr(search_params, "publication_type")
        THEN <<Clause("type", QuotePlus(search_params["publication_type"]))>>
        ELSE <<>>)
    \o (IF HasSeq(search_params, "raw_filters")
        THEN search_params["raw_filters"] ELSE <<>>)

Min2(a, b) == IF a < b THEN a ELSE b
Max2Second(a, b) == b
Max2(a, b) == IF a > b THEN a ELSE b

_build_api_params(search_params, row_limit) ==
    (IF HasStr(search_params, "keyword")
     THEN "query.bibliographic" :> search_params["keyword"]
     ELSE IF HasStr(search_params, "funding_agency_name")
     THEN "query.bibliographic" :> search_params["funding_agency_name"]
     ELSE EmptyDict)
    @@ (IF HasSeq(search_params, "title")
        THEN "query.title" :> search_params["title"] ELSE EmptyDict)
    @@ (IF HasSeq(search_params, "author")
        THEN "query.author" :> search_params["author"] ELSE EmptyDict)
    @@ (IF HasStr(search_params, "doi")
        THEN "query.doi" :> search_params["doi"] ELSE EmptyDict)
    @@ (IF HasStr(search_params, "affiliation")
        THEN "query.affiliation" :> search_params["affiliation"] ELSE EmptyDict)
    @@ (IF ApiFilters(search_params) # <<>>
        THEN "filter" :> ApiFilters(search_params) ELSE EmptyDict)
    @@ ("rows" :> Max2(1, Min2(row_limit, 1000)))

\* The request search_crossref_api sends for a dict search_params.
SearchRequestDefaultRows(search_params, row_limit) ==
    [op |-> "search",
     params |-> _build_api_params(search_params, 10)
                    @@ ("mailto" :> DEFAULT_MAILTO_EMAIL)]

SearchRequest(search_params, row_limit) ==
    [op |-> "search",
     params |-> _build_api_params(search_params, row_limit)
                    @@ ("mailto" :> DEFAULT_MAILTO_EMAIL)]

\* The request get_apa_citation_from_doi sends.
CitationRequest(d) == [op |-> "citation", doi |-> d]

-----------------------------------------------------------------------------
(* find_and_cite_reference, one call per element of Calls *)

gnw_frame == UNCHANGED <<gnw_vars, year_vars>>

Orders(S) == {o \in [1..Cardinality(S) -> S] : \A x \in S : \E i \in DOMAIN o : o[i] = x}

\* search_params as built in step 2; `order` is the iteration order of the
\* parsed author list, which " ".join fixes into the author string.
CiteSearchParams(c, order) ==
    ("keyword" :> reference_text[c])
    @@ (IF parsed_authors[c] # {} THEN "author" :> order ELSE EmptyDict)
    @@ (IF Truthy(parsed_year[c])
        THEN ("publication_year_from" :> parsed_year[c])
                 @@ ("publication_year_to" :> parsed_year[c])
        ELSE EmptyDict)
    @@ (IF title_to_match_against[c] # <<>> /\ expected_title[c] = <<>>
        THEN "title" :> title_to_match_against[c]
        ELSE IF expected_title[c] # <<>>
        THEN "title" :> expected_title[c]
        ELSE EmptyDict)

Goto(c, l) ==
    /\ pc' = [pc EXCEPT ![c] = l]
    /\ path' = [path EXCEPT ![c] = Append(@, l)]

Return(c, v) ==
    /\ outcome' = [outcome EXCEPT ![c] = v]
    /\ Goto(c, "Done")

Raise(c, e) ==
    /\ outcome' = [outcome EXCEPT ![c] = [tag |-> "Raised", error |-> e]]
    /\ Goto(c, "Raised")

\* Step 1: parse authors, year and title.
Parse(c) ==
    /\ pc[c] = "Parsing"
    /\ LET authors == _parse_authors_from_reference(reference_text[c])
           year == _parse_year_from_reference(reference_text[c])
       IN  /\ parsed_authors' = [parsed_authors EXCEPT ![c] = authors]
           /\ parsed_year' = [parsed_year EXCEPT ![c] = year]
           /\ title_to_match_against' =
                [title_to_match_against EXCEPT ![c] =
                    IF expected_title[c] # <<>> THEN expected_title[c]
                    ELSE _parse_title_from_reference(reference_text[c], authors, year)]
    /\ Goto(c, "Querying")
    /\ gnw_frame
    /\ UNCHANGED <<reference_text, expected_title, results, idx, best_match_item,
                   highest_overall_score, doi, citation, outcome, heap,
                   requests_log>>

\* `not results`
NotResultsNoneOnly(ret) == ret.none
NotResults(ret) == ret.none \/ ret.items = <<>>

\* Step 2: build search_params, call search_crossref_api(rows=5), and
\* return at once when it gave nothing.
SearchWith(c, returns) ==
    /\ pc[c] = "Querying"
    /\ \E order \in Orders(parsed_authors[c]), ret \in returns :
        /\ requests_log' = Append(requests_log,
                                  SearchRequest(CiteSearchParams(c, order), 5))
        /\ IF NotResults(ret)
           THEN /\ results' = [results EXCEPT ![c] = [none |-> ret.none, items |-> <<>>]]
                /\ Return(c, [tag |-> "NoResults", reference |-> reference_text[c]])
                /\ UNCHANGED <<heap, idx, best_match_item, highest_overall_score>>
           ELSE /\ heap' = heap \o ret.items
                /\ results' = [results EXCEPT ![c] =
                     [none |-> FALSE,
                      items |-> [i \in 1..Len(ret.items) |-> Len(heap) + i]]]
                /\ idx' = [idx EXCEPT ![c] = 1]
                /\ best_match_item' = [best_match_item EXCEPT ![c] = 0]
                /\ highest_overall_score' = [highest_overall_score EXCEPT ![c] = <<-1, 1, 0>>]
                /\ IF ret.items = <<>>
                   THEN Goto(c, "Deciding")
                   ELSE Goto(c, "Scoring")
                /\ UNCHANGED outcome
    /\ gnw_frame
    /\ UNCHANGED <<reference_text, expected_title, parsed_authors, parsed_year,
                   title_to_match_against, doi, citation>>

\* The search of a call on its own: the registry decodes a fresh response.
Search(c) == SearchWith(c, SearchReturns)

\* The candidates of the calls that run side by side.
ConcurrentCandidates ==
    {("title" :> <<TitleAb>>) @@ Matched @@ ("DOI" :> "10.1/a"),
     ("title" :> <<>>) @@ Matched @@ ("DOI" :> "10.1/a")}

ConcurrentReturns ==
    {[none |-> TRUE, items |-> <<>>]}
        \cup {[none |-> FALSE, items |-> s] :
                 s \in SeqsUpTo(ConcurrentCandidates, MaxResults)}

\* The search of a call that runs beside another one, fresh response.
SearchFresh(c) == SearchWith(c, ConcurrentReturns)

\* The search of a call to which the registry collaborator hands the list
\* it handed to another call: the same item objects, not copies.
SearchCached(c) ==
    /\ pc[c] = "Querying"
    /\ \E order \in Orders(parsed_authors[c]), d \in Calls \ {c} :
        /\ ~results[d].none
        /\ results[d].items # <<>>
        /\ requests_log' = Append(requests_log,
                                  SearchRequest(CiteSearchParams(c, order), 5))
        /\ results' = [results EXCEPT ![c] = results[d]]
        /\ idx' = [idx EXCEPT ![c] = 1]
        /\ best_match_item' = [best_match_item EXCEPT ![c] = 0]
        /\ highest_overall_score' = [highest_overall_score EXCEPT ![c] = <<-1, 1, 0>>]
        /\ Goto(c, "Scoring")
    /\ gnw_frame
    /\ UNCHANGED <<reference_text, expected_title, parsed_authors, parsed_year,
                   title_to_match_against, doi, citation, outcome, heap>>

\* `if overall_score > highest_overall_score`
IsNewBestOrTie(overall_score, highest) == ~FLess(overall_score, highest)
IsNewBest(overall_score, highest) == FLess(highest, overall_score)

\* One iteration of `for item in results`.
ScoreItem(c) ==
    /\ pc[c] = "Scoring"
    /\ LET ref == results[c].items[idx[c]]
           item == heap[ref]
           overall_score == OverallScore(item, parsed_authors[c], parsed_year[c],
                                         title_to_match_against[c], expected_title[c])
       IN  IF IsNewBest(overall_score, highest_overall_score[c])
           THEN /\ highest_overall_score' =
                     [highest_overall_score EXCEPT ![c] = overall_score]
                /\ best_match_item' = [best_match_item EXCEPT ![c] = ref]
                /\ heap' = [heap EXCEPT ![ref] =
                              ("_calculated_score" :> overall_score)
                              @@ ("_matched_api_year" :> ApiYearStr(item))
                              @@ item]
           ELSE UNCHANGED <<highest_overall_score, best_match_item, heap>>
    /\ idx' = [idx EXCEPT ![c] = @ + 1]
    /\ IF idx[c] = Len(results[c].items)
       THEN Goto(c, "Deciding")
       ELSE UNCHANGED <<pc, path>>
    /\ gnw_frame
    /\ UNCHANGED <<reference_text, expected_title, parsed_authors, parsed_year,
                   title_to_match_against, results, doi, citation, outcome,
                   requests_log>>

LowConfidence(c, item) ==
    [tag |-> "LowConfidence",
     score |-> FmtScore(item["_calculated_score"]),
     threshold |-> CONFIDENCE_THRESHOLD,
     title |-> FirstTitle(item),
     reference |-> reference_text[c],
     input_title |-> title_to_match_against[c]]

\* `if best_match_item:` up to the call of get_apa_citation_from_doi.
Decide(c) ==
    /\ pc[c] = "Deciding"
    /\ IF best_match_item[c] = 0
       THEN /\ Return(c, [tag |-> "NoConfidentMatch",
                          reference |-> reference_text[c],
                          input_title |-> title_to_match_against[c]])
            /\ UNCHANGED doi
       ELSE LET item == heap[best_match_item[c]]
            IN  IF FGeq(item["_calculated_score"], CONFIDENCE_THRESHOLD)
                THEN IF Truthy(Get(item, "DOI", None))
                     THEN /\ doi' = [doi EXCEPT ![c] = item["DOI"]]
                          /\ Goto(c, "Fetching")
                          /\ UNCHANGED outcome
                     ELSE /\ Return(c, [tag |-> "NoDoiOnHighConfidenceMatch",
                                        score |-> FmtScore(item["_calculated_score"])])
                          /\ UNCHANGED doi
                ELSE /\ IF TitleRaises(item)
                        THEN Raise(c, "IndexError")
                        ELSE Return(c, LowConfidence(c, item))
                     /\ UNCHANGED doi
    /\ gnw_frame
    /\ UNCHANGED <<reference_text, expected_title, parsed_authors, parsed_year,
                   title_to_match_against, results, idx, best_match_item,
                   highest_overall_score, citation, heap, requests_log>>

\* get_apa_citation_from_doi(doi) and the two returns that follow it.
FetchCitation(c) ==
    /\ pc[c] = "Fetching"
    /\ \E ret \in CitationReturns :
        LET item == heap[best_match_item[c]]
        IN  /\ requests_log' = Append(requests_log, CitationRequest(doi[c]))
            /\ citation' = [citation EXCEPT ![c] = ret]
            /\ IF TitleRaises(item)
               THEN Raise(c, "IndexError")
               ELSE IF Truthy(ret)
               THEN Return(c, [tag |-> "Resolved", citation |-> ret])
               ELSE Return(c, [tag |-> "MatchedButCitationUnavailable",
                               doi |-> doi[c],
                               score |-> FmtScore(item["_calculated_score"]),
                               title |-> FirstTitle(item)])
    /\ gnw_frame
    /\ UNCHANGED <<reference_text, expected_title, parsed_authors, parsed_year,
                   title_to_match_against, results, idx, best_match_item,
                   highest_overall_score, doi, heap>>

-----------------------------------------------------------------------------
(* get_new_works *)

\* the date_type values get_new_works accepts
ValidDateTypesWithPub ==
    {"from-created-date", "from-update-date", "from-index-date", "from-pub-date"}
ValidDateTypes == {"from-created-date", "from-update-date", "from-index-date"}

conflicting_date_prefixes ==
    {"from-created-date", "until-created-date",
     "from-update-date", "until-update-date",
     "from-index-date", "until-index-date",
     "from-pub-date", "until-pub-date",
     "from-deposit-date", "until-deposit-date"}

\* f.startswith(prefix) on the clauses of the model, whose text is
\* "<key>:<val>" with a key that is a whole filter name
StartsWith(f, prefix) == f.key = prefix

sort_field_map ==
    ("from-created-date" :> "created")
    @@ ("from-update-date" :> "updated")
    @@ ("from-index-date" :> "indexed")

\* params_for_new_works["filter"] after the if/else on existing_filters
NewWorksFilter(params, dt, since) ==
    LET existing_filters == Get(params, "filter", <<>>)
        new_date_filter == Clause(dt, since)
        cleaned_filters ==
            SelectSeq(existing_filters,
                      LAMBDA f : ~\E prefix \in conflicting_date_prefixes :
                                     StartsWith(f, prefix))
    IN  IF existing_filters # <<>>
        THEN Append(cleaned_filters, new_date_filter)
        ELSE <<new_date_filter>>

\* params_for_new_works after the sort / order defaults
WithSort(params, dt) ==
    IF "sort" \notin DOMAIN params
    THEN ("sort" :> sort_field_map[dt]) @@ ("order" :> "asc") @@ params
    ELSE params

GnwReturn(v) ==
    /\ gnw_result' = v
    /\ gnw_pc' = "Done"

\* search_criteria_params.copy(): a new dict object with the same items;
\* `shared` tells whether writes to the result reach the caller's object.
dict_alias(d) == [shared |-> TRUE, map |-> d.map]
dict_copy(d) == [shared |-> FALSE, map |-> d.map]

\* The caller's object after item assignments that left `local` with the
\* items `written`.
AfterWrites(local, written) ==
    IF local.shared THEN [caller_criteria EXCEPT !.map = written]
    ELSE caller_criteria

\* get_new_works up to its call of search_crossref_api
BuildIncrementalQuery ==
    /\ gnw_pc = "Called"
    /\ IF search_criteria_params.kind # "dict"
       THEN /\ GnwReturn([tag |-> "None"])
            /\ UNCHANGED <<params_for_new_works, caller_criteria>>
       ELSE IF date_type \notin ValidDateTypes
       THEN /\ GnwReturn([tag |-> "None"])
            /\ UNCHANGED <<params_for_new_works, caller_criteria>>
       ELSE LET local == dict_copy(caller_criteria)
                copy == local.map
                filtered == ("filter" :> NewWorksFilter(copy, date_type, since_datetime_str))
                                @@ copy
            IN  IF "sort" \notin DOMAIN filtered /\ date_type \notin DOMAIN sort_field_map
                THEN /\ gnw_result' = [tag |-> "Raised", error |-> "KeyError"]
                     /\ gnw_pc' = "Raised"
                     /\ params_for_new_works' = filtered
                     /\ caller_criteria' = AfterWrites(local, filtered)
                ELSE /\ params_for_new_works' = WithSort(filtered, date_type)
                     /\ caller_criteria' = AfterWrites(local, WithSort(filtered, date_type))
                     /\ gnw_pc' = "Searching"
                     /\ UNCHANGED gnw_result
    /\ UNCHANGED <<search_criteria_params, since_datetime_str, date_type, rows,
                   requests_log, cite_vars, year_vars>>

\* What search_crossref_api returns to get_new_works.
NewWorksReturns ==
    {[tag |-> "None"],
     [tag |-> "items", items |-> <<>>],
     [tag |-> "items", items |-> <<("DOI" :> "10.1/a")>>]}

\* return search_crossref_api(params_for_new_works, rows=rows, ...)
NewWorksSearch ==
    /\ gnw_pc = "Searching"
    /\ requests_log' = Append(requests_log, SearchRequest(params_for_new_works, rows))
    /\ \E ret \in NewWorksReturns : GnwReturn(ret)
    /\ UNCHANGED <<search_criteria_params, caller_criteria, since_datetime_str,
                   date_type, rows, params_for_new_works, cite_vars, year_vars>>

\* The base criteria mappings of the model.
FilterShapes ==
    {EmptyDict,
     "filter" :> <<>>,
     "filter" :> <<Clause("type", "journal-article")>>,
     "filter" :> <<Clause("type", "journal-article"),
                   Clause("from-pub-date", "2020-01-01")>>,
     "filter" :> <<Clause("from-index-date", "2023-01-01"),
                   Clause("until-created-date", "2024-06-30")>>}

RawFilterShapes ==
    {EmptyDict,
     "raw_filters" :> <<Clause("has-abstract", "true")>>,
     "raw_filters" :> <<Clause("until-index-date", "2021-01-01")>>}

PubYearShapes ==
    {EmptyDict,
     "publication_year_from" :> "2019",
     ("publication_year_from" :> "2019") @@ ("publication_year_to" :> "2021")}

SortShapes ==
    {EmptyDict,
     "sort" :> "published",
     ("sort" :> "score") @@ ("order" :> "desc")}

OtherShapes ==
    {"keyword" :> "climate",
     ("keyword" :> "climate") @@ ("publication_type" :> "book chapter")}

CriteriaMappings ==
    {f @@ r @@ y @@ s @@ o :
        f \in FilterShapes, r \in RawFilterShapes, y \in PubYearShapes,
        s \in SortShapes, o \in OtherShapes}

\* What a caller can pass as search_criteria_params.
CriteriaArguments ==
    {[kind |-> "dict", map |-> m] : m \in CriteriaMappings}
        \cup {[kind |-> "str", map |-> EmptyDict], [kind |-> "None", map |-> EmptyDict]}

DateTypeArguments == ValidDateTypes \cup {"invalid", "from-pub-date"}

SinceArguments == {"2024-01-01T00:00:00Z", "2023-01-01"}

RowsArguments == {-3, 0, 1, 10, 20, 1000, 1001, 5000}

-----------------------------------------------------------------------------
(* _parse_year_from_reference on character sequences *)

IsDigit(ch) == ch \in {"0", "1", "2", "3", "4", "5", "6", "7", "8", "9"}

\* \w of the regular expressions, on the characters of the model
IsRegexWord(ch) == IsDigit(ch) \/ ch \in {"a", "_"}

DigitValue(ch) ==
    CASE ch = "0" -> 0 [] ch = "1" -> 1 [] ch = "2" -> 2 [] ch = "3" -> 3
      [] ch = "4" -> 4 [] ch = "5" -> 5 [] ch = "6" -> 6 [] ch = "7" -> 7
      [] ch = "8" -> 8 [] ch = "9" -> 9

\* int(year_candidate) of four digits
IntOf(d) ==
    1000 * DigitValue(d[1]) + 100 * DigitValue(d[2])
        + 10 * DigitValue(d[3]) + DigitValue(d[4])

\* \d{4} matches at position i (1-based)
FourDigitsAt(s, i) ==
    /\ i >= 1
    /\ i + 3 <= Len(s)
    /\ \A k \in 0..3 : IsDigit(s[i + k])

\* \b at the gap before position i (between s[i-1] and s[i])
WordBoundaryBefore(s, i) ==
    LET before == i >= 2 /\ i - 1 <= Len(s) /\ IsRegexWord(s[i - 1])
        after == i >= 1 /\ i <= Len(s) /\ IsRegexWord(s[i])
    IN  before # after

\* the start positions of the matches of r'\((\d{4})\)', as the position
\* of group 1
ParenMatches(s) ==
    {i \in 2..Len(s) : /\ s[i - 1] = "("
                       /\ FourDigitsAt(s, i)
                       /\ i + 4 <= Len(s)
                       /\ s[i + 4] = ")"}

\* the start positions of the matches of r'\b(\d{4})\b'
BoundedMatches(s) ==
    {i \in 1..Len(s) : /\ WordBoundaryBefore(s, i)
                       /\ FourDigitsAt(s, i)
                       /\ WordBoundaryBefore(s, i + 4)}

\* re.search: the leftmost match
Leftmost(S) == CHOOSE i \in S : \A j \in S : i <= j

YearNone == [none |-> TRUE, year |-> <<>>]
YearFound(d) == [none |-> FALSE, year |-> d]

\* lines 427-429: the parenthesised year
ParenthesizedYear(s) ==
    IF ParenMatches(s) # {}
    THEN YearFound(SubSeq(s, Leftmost(ParenMatches(s)), Leftmost(ParenMatches(s)) + 3))
    ELSE YearNone

\* lines 431-441: the fallback without parentheses
FallbackYear(s) ==
    IF BoundedMatches(s) = {} THEN YearNone
    ELSE LET start == Leftmost(BoundedMatches(s))
             year_candidate == SubSeq(s, start, start + 3)
             prev_char_index == start - 1
         IN  IF 1700 < IntOf(year_candidate) /\ IntOf(year_candidate) < 2100
             THEN IF prev_char_index >= 1 /\ IsDigit(s[prev_char_index])
                  THEN YearNone
                  ELSE YearFound(year_candidate)
             ELSE YearNone

ParseYearFallbackFirst(s) ==
    IF ~FallbackYear(s).none THEN FallbackYear(s) ELSE ParenthesizedYear(s)

\* _parse_year_from_reference
ParseYearFromReference(s) ==
    IF ~ParenthesizedYear(s).none THEN ParenthesizedYear(s) ELSE FallbackYear(s)

\* Reference strings are built from these pieces.
YearTokens ==
    {<<"(">>, <<")">>, <<" ">>, <<"a">>, <<"1">>,
     <<"1", "9", "9", "9">>, <<"1", "1", "1", "1">>}

\* Most pieces of a reference string.
MaxTokens == 5

RECURSIVE Concat(_)
Concat(ts) == IF ts = <<>> THEN <<>> ELSE Head(ts) \o Concat(Tail(ts))

YearReferences == {Concat(ts) : ts \in SeqsUpTo(YearTokens, MaxTokens)}

\* The call of _parse_year_from_reference.
ParseYear ==
    /\ year_pc = "Called"
    /\ year_result' = ParseYearFromReference(year_ref)
    /\ year_pc' = "Done"
    /\ UNCHANGED <<year_ref, cite_vars, gnw_vars, requests_log>>

-----------------------------------------------------------------------------
(* Specifications *)

CiteIdle ==
    /\ pc = [c \in Calls |-> "Idle"]
    /\ path = [c \in Calls |-> <<>>]
    /\ reference_text = [c \in Calls |-> RefBare]
    /\ expected_title = [c \in Calls |-> <<>>]

CiteLocals ==
    /\ parsed_authors = [c \in Calls |-> {}]
    /\ parsed_year = [c \in Calls |-> None]
    /\ title_to_match_against = [c \in Calls |-> <<>>]
    /\ results = [c \in Calls |-> [none |-> TRUE, items |-> <<>>]]
    /\ idx = [c \in Calls |-> 0]
    /\ best_match_item = [c \in Calls |-> 0]
    /\ highest_overall_score = [c \in Calls |-> <<-1, 1, 0>>]
    /\ doi = [c \in Calls |-> None]
    /\ citation = [c \in Calls |-> None]
    /\ outcome = [c \in Calls |-> [tag |-> "Pending"]]
    /\ heap = <<>>

GnwIdle ==
    /\ gnw_pc = "Idle"
    /\ search_criteria_params = [kind |-> "None", map |-> EmptyDict]
    /\ caller_criteria = search_criteria_params
    /\ since_datetime_str = "2023-01-01"
    /\ date_type = "from-index-date"
    /\ rows = 20
    /\ params_for_new_works = EmptyDict
    /\ gnw_result = [tag |-> "Pending"]

YearIdle ==
    /\ year_pc = "Idle"
    /\ year_ref = <<>>
    /\ year_result = [none |-> TRUE, year |-> <<>>]

\* One call of find_and_cite_reference (call 1), on any modelled input.
Init ==
    /\ \E ref \in ReferenceTexts, et \in ExpectedTitles :
        /\ pc = [c \in Calls |-> IF c = 1 THEN "Parsing" ELSE "Idle"]
        /\ path = [c \in Calls |-> IF c = 1 THEN <<"Parsing">> ELSE <<>>]
        /\ reference_text = [c \in Calls |-> IF c = 1 THEN ref ELSE RefBare]
        /\ expected_title = [c \in Calls |-> IF c = 1 THEN et ELSE <<>>]
    /\ CiteLocals
    /\ GnwIdle
    /\ YearIdle
    /\ requests_log = <<>>

Next ==
    \E c \in Calls :
        \/ Parse(c)
        \/ Search(c)
        \/ ScoreItem(c)
        \/ Decide(c)
        \/ FetchCitation(c)

Spec == Init /\ [][Next]_vars

\* The reference strings of the calls that run side by side.
ConcurrentReferences == {RefOne, RefDots}

\* Two calls of find_and_cite_reference whose steps an external scheduler
\* interleaves.
InitConcurrent ==
    /\ pc = [c \in Calls |-> "Parsing"]
    /\ path = [c \in Calls |-> <<"Parsing">>]
    /\ reference_text \in [Calls -> ConcurrentReferences]
    /\ expected_title = [c \in Calls |-> <<>>]
    /\ CiteLocals
    /\ GnwIdle
    /\ YearIdle
    /\ requests_log = <<>>

NextConcurrent ==
    \E c \in Calls :
        \/ Parse(c)
        \/ SearchFresh(c)
        \/ SearchCached(c)
        \/ ScoreItem(c)
        \/ Decide(c)
        \/ FetchCitation(c)

SpecConcurrent == InitConcurrent /\ [][NextConcurrent]_vars

\* One call of _parse_year_from_reference, on any modelled string.
InitParseYear ==
    /\ CiteIdle
    /\ CiteLocals
    /\ GnwIdle
    /\ year_pc = "Called"
    /\ year_ref \in YearReferences
    /\ year_result = YearNone
    /\ requests_log = <<>>

NextParseYear == ParseYear

SpecParseYear == InitParseYear /\ [][NextParseYear]_vars

\* One call of get_new_works, on any modelled input.
InitNewWorks ==
    /\ CiteIdle
    /\ CiteLocals
    /\ gnw_pc = "Called"
    /\ search_criteria_params \in CriteriaArguments
    /\ caller_criteria = search_criteria_params
    /\ since_datetime_str \in SinceArguments
    /\ date_type \in DateTypeArguments
    /\ rows \in RowsArguments
    /\ params_for_new_works = EmptyDict
    /\ gnw_result = [tag |-> "Pending"]
    /\ YearIdle
    /\ requests_log = <<>>

NextNewWorks ==
    \/ BuildIncrementalQuery
    \/ NewWorksSearch

SpecNewWorks == InitNewWorks /\ [][NextNewWorks]_vars

-----------------------------------------------------------------------------
(* State functions used by the properties *)

Ended(c) == pc[c] \in {"Done", "Raised"}

\* The search of call c returned at least one candidate.
GotCandidates(c) ==
    /\ pc[c] \notin {"Idle", "Parsing", "Querying"}
    /\ ~results[c].none
    /\ results[c].items # <<>>

\* The search of call c returned None or an empty list.
GotNothing(c) ==
    /\ pc[c] \notin {"Idle", "Parsing", "Querying"}
    /\ results[c].none \/ results[c].items = <<>>

\* The overall score of the i-th candidate of call c, computed afresh.
ScoreAt(c, i) ==
    OverallScore(heap[results[c].items[i]], parsed_authors[c], parsed_year[c],
                 title_to_match_against[c], expected_title[c])

\* A score as the outcomes report it: rounded to hundredths.
Hundredths(x) == Fmt2(<<x[1], x[2]>>)

\* The float 0.65 the claims name.
Score065 == <<13, 20, 0>>

MaxScoreReaches065(c) ==
    \E i \in 1..Len(results[c].items) : FGeq(ScoreAt(c, i), Score065)

MaxScoreBelow065(c) ==
    \A i \in 1..Len(results[c].items) : FLess(ScoreAt(c, i), Score065)

\* The selected candidate of call c, once there is one.
Selected(c) == heap[best_match_item[c]]

SelectedHasDoi(c) == Truthy(Get(Selected(c), "DOI", None))

CitationRequests == SelectSeq(requests_log, LAMBDA r : r.op = "citation")
SearchRequests == SelectSeq(requests_log, LAMBDA r : r.op = "search")

\* No item of the heap carries a computed score.
NothingScored ==
    \A i \in 1..Len(heap) : "_calculated_score" \notin DOMAIN heap[i]

\* The scores of the candidates of call c, computed from its own inputs.
AloneScores(c) == [i \in 1..Len(results[c].items) |-> ScoreAt(c, i)]

\* The first position at which a sequence of scores has its maximum.
FirstMax(score) ==
    CHOOSE i \in DOMAIN score :
        /\ \A j \in DOMAIN score : FGeq(score[i], score[j])
        /\ \A j \in 1..(i - 1) : FLess(score[j], score[i])

FiveVariants ==
    {"Resolved", "MatchedButCitationUnavailable", "LowConfidence", "NoResults",
     "NoDoiOnHighConfidenceMatch"}

-----------------------------------------------------------------------------
(* Properties of find_and_cite_reference, checked under Spec *)

\* C1: when the search returned candidates whose maximum overall score is
\* at least 0.65 and the selected candidate carries a DOI, the citation
\* of that DOI is fetched, and when the fetch returned a citation text the
\* call returns exactly that text (outcome Resolved).
ResolvedReturnsFetchedCitation ==
    \A c \in Calls :
        (/\ Ended(c)
         /\ GotCandidates(c)
         /\ SelectedHasDoi(c)
         /\ MaxScoreReaches065(c))
        => /\ CitationRequests = <<CitationRequest(Selected(c)["DOI"])>>
           /\ Truthy(citation[c])
                => outcome[c] = [tag |-> "Resolved", citation |-> citation[c]]

ResolvedReached ==
    \E c \in Calls :
        /\ pc[c] = "Done"
        /\ GotCandidates(c)
        /\ MaxScoreReaches065(c)
        /\ SelectedHasDoi(c)
        /\ Truthy(citation[c])
        /\ outcome[c].tag = "Resolved"

\* C2: when the search returned None or an empty list the call ends in
\* NoResults, no candidate was scored and no citation fetch was issued.
NothingFoundIsNoResults ==
    \A c \in Calls :
        GotNothing(c)
        => /\ pc[c] = "Done"
           /\ outcome[c].tag = "NoResults"
           /\ idx[c] = 0
           /\ best_match_item[c] = 0
           /\ NothingScored
           /\ CitationRequests = <<>>

EmptyListReached ==
    \E c \in Calls :
        /\ pc[c] = "Done"
        /\ ~results[c].none
        /\ results[c].items = <<>>
        /\ Len(SearchRequests) = 1
        /\ outcome[c].tag = "NoResults"

\* C3: when the search returned candidates and the maximum overall score
\* is below 0.65 the call ends in LowConfidence carrying the best score,
\* the threshold 0.65, the best candidate's title and the reference text,
\* and no citation fetch was issued.
BelowThresholdIsLowConfidence ==
    \A c \in Calls :
        (Ended(c) /\ GotCandidates(c) /\ MaxScoreBelow065(c))
        => /\ outcome[c].tag = "LowConfidence"
           /\ outcome[c].score = Hundredths(highest_overall_score[c])
           /\ outcome[c].threshold = Score065
           /\ outcome[c].title = FirstTitle(Selected(c))
           /\ outcome[c].reference = reference_text[c]
           /\ CitationRequests = <<>>

\* C4: when the best score is at least 0.65, the selected candidate
\* carries a DOI and the citation fetch returned None, the call ends in
\* MatchedButCitationUnavailable with that DOI, the score and the matched
\* title, after a single fetch.
FailedFetchIsReported ==
    \A c \in Calls :
        (/\ Ended(c)
         /\ GotCandidates(c)
         /\ CitationRequests # <<>>
         /\ citation[c] = None
         /\ SelectedHasDoi(c)
         /\ MaxScoreReaches065(c))
        => /\ outcome[c].tag = "MatchedButCitationUnavailable"
           /\ outcome[c].doi = Selected(c)["DOI"]
           /\ outcome[c].score = Hundredths(highest_overall_score[c])
           /\ outcome[c].title = FirstTitle(Selected(c))
           /\ CitationRequests = <<CitationRequest(Selected(c)["DOI"])>>

FailedFetchReached ==
    \E c \in Calls :
        /\ pc[c] = "Done"
        /\ GotCandidates(c)
        /\ MaxScoreReaches065(c)
        /\ SelectedHasDoi(c)
        /\ Len(CitationRequests) = 1
        /\ citation[c] = None
        /\ outcome[c].tag = "MatchedButCitationUnavailable"

\* C5: when the best score is at least 0.65 and the selected candidate
\* has no DOI, the call ends in NoDoiOnHighConfidenceMatch carrying the
\* score, and no citation fetch was issued.
MissingDoiIsReported ==
    \A c \in Calls :
        (/\ Ended(c)
         /\ GotCandidates(c)
         /\ ~SelectedHasDoi(c)
         /\ MaxScoreReaches065(c))
        => /\ outcome[c] = [tag |-> "NoDoiOnHighConfidenceMatch",
                            score |-> Hundredths(highest_overall_score[c])]
           /\ CitationRequests = <<>>

MissingDoiReached ==
    \E c \in Calls :
        /\ pc[c] = "Done"
        /\ GotCandidates(c)
        /\ MaxScoreReaches065(c)
        /\ "DOI" \notin DOMAIN Selected(c)
        /\ outcome[c].tag = "NoDoiOnHighConfidenceMatch"

\* The loop over the candidates of call c has finished and the decision
\* is about to be taken: every score of the call has been computed, and
\* nothing changes the scores or the selection from here on.
AllScored(c) == pc[c] = "Deciding"

\* C12: when all candidates are scored, the selected candidate is one
\* whose overall score is the maximum over all candidates, the earliest
\* such candidate in registry order, and the best score kept is that
\* maximum.
SelectsFirstMaximum ==
    \A c \in Calls :
        AllScored(c)
        => LET score == AloneScores(c)
               first == FirstMax(score)
           IN  /\ best_match_item[c] = results[c].items[first]
               /\ highest_overall_score[c] = score[first]
               /\ \A i \in DOMAIN score : FGeq(highest_overall_score[c], score[i])

\* A later candidate ties with the selected one at the maximum.
TieSelectsEarliestReached ==
    \E c \in Calls :
        /\ pc[c] = "Done"
        /\ GotCandidates(c)
        /\ Len(results[c].items) >= 2
        /\ best_match_item[c] = results[c].items[1]
        /\ "_calculated_score" \notin DOMAIN heap[results[c].items[2]]
        /\ ScoreAt(c, 2) = ScoreAt(c, 1)

\* The weight sets the claims name: title, author, year.
ClaimedWeights(supplied) ==
    IF supplied THEN << <<6, 10>>, <<3, 10>>, <<1, 10>> >>
    ELSE << <<4, 10>>, <<3, 10>>, <<3, 10>> >>

\* The weighted sum of the component scores of an item for call c, over
\* the reals, with the claimed weights.
ClaimedScore(c, item) ==
    LET w == ClaimedWeights(expected_title[c] # <<>>)
    IN  RAdd(RAdd(RMul(w[1], TitleScore(item, title_to_match_against[c])),
                  RMul(w[2], AuthorScore(item, parsed_authors[c]))),
             RMul(w[3], YearScore(item, parsed_year[c])))

\* C13: every score the scorer has attached when the loop ends is the
\* weighted sum of the three component scores with weights (0.6, 0.3, 0.1)
\* when an expected title was supplied and (0.4, 0.3, 0.3) otherwise (the
\* double computed lies at most two units in the last place from the
\* exact sum), both weight sets sum to 1, and the score lies in [0, 1].
ScoreIsWeightedSumInUnitInterval ==
    /\ \A supplied \in BOOLEAN :
          LET w == ClaimedWeights(supplied)
          IN  /\ RAdd(RAdd(w[1], w[2]), w[3]) = <<1, 1>>
              /\ <<TitleWeight(supplied), AuthorWeight, YearWeight(supplied)>> = w
    /\ \A c \in Calls : \A k \in 1..Len(results[c].items) :
          LET item == heap[results[c].items[k]]
          IN  (AllScored(c) /\ "_calculated_score" \in DOMAIN item)
              => LET x == item["_calculated_score"]
                 IN  /\ <<x[1], x[2]>> = ClaimedScore(c, item)
                     /\ Abs(x[3]) <= 2
                     /\ FGeq(x, <<0, 1, 0>>)
                     /\ FGeq(<<1, 1, 0>>, x)

\* A candidate matching on title, author and year under the weights of a
\* supplied expected title: the largest score there is.
FullScoreReached ==
    \E c \in Calls :
        /\ pc[c] = "Done"
        /\ expected_title[c] # <<>>
        /\ best_match_item[c] # 0
        /\ TitleScore(Selected(c), title_to_match_against[c]) = <<1, 1>>
        /\ AuthorScore(Selected(c), parsed_authors[c]) = <<1, 1>>
        /\ YearScore(Selected(c), parsed_year[c]) = <<1, 1>>
        /\ Selected(c)["_calculated_score"] = <<1, 1, -1>>

\* A date source of an item carries a year.
CarriesYear(item, key) ==
    /\ key \in DOMAIN item
    /\ "date-parts" \in DOMAIN item[key]
    /\ item[key]["date-parts"] # <<>>
    /\ item[key]["date-parts"][1] # <<>>
    /\ item[key]["date-parts"][1][1] # JsonNull

\* The year of the first of published-print, published-online, created
\* that carries one; "N/A" when none does.
FirstCarriedYear(item) ==
    LET carrying == {k \in 1..3 : CarriesYear(item, YearSourceKeys[k])}
    IN  IF carrying = {} THEN "N/A"
        ELSE LET k == CHOOSE k \in carrying : \A l \in carrying : k <= l
             IN  YearStr(item[YearSourceKeys[k]]["date-parts"][1][1])

\* 1.0 on the reference year, 0.5 when the reference year is unknown,
\* 0.0 otherwise.
ClaimedYearScore(c, item) ==
    IF parsed_year[c] = None THEN <<1, 2>>
    ELSE IF FirstCarriedYear(item) = parsed_year[c] THEN <<1, 1>>
    ELSE <<0, 1>>

\* C14: the year used for scoring a candidate is the year of the first
\* of published-print, published-online, created that carries a year, a
\* missing or empty source being skipped; the year score in the overall
\* score is 1.0 when it equals the parsed reference year, 0.5 when the
\* reference year is unknown, 0.0 otherwise.
YearIsFirstCarriedYear ==
    \A c \in Calls : \A k \in 1..Len(results[c].items) :
        LET item == heap[results[c].items[k]]
            w == ClaimedWeights(expected_title[c] # <<>>)
        IN  "_calculated_score" \in DOMAIN item
            => /\ item["_matched_api_year"] = FirstCarriedYear(item)
               /\ <<item["_calculated_score"][1], item["_calculated_score"][2]>>
                    = RAdd(RAdd(RMul(w[1], TitleScore(item, title_to_match_against[c])),
                                RMul(w[2], AuthorScore(item, parsed_authors[c]))),
                           RMul(w[3], ClaimedYearScore(c, item)))

\* The family names a candidate lists, lower-cased.
FamilyNames(item) ==
    IF "author" \notin DOMAIN item THEN {}
    ELSE {LowerName(a.family) :
            a \in {item["author"][i] : i \in {j \in 1..Len(item["author"]) :
                                               "family" \in DOMAIN item["author"][j]}}}

\* 0.5 without parsed authors, 0.0 when the candidate lists no authors,
\* otherwise the share of the parsed surnames found among the candidate's
\* family names, case-insensitively.
ClaimedAuthorScore(c, item) ==
    IF parsed_authors[c] = {} THEN <<1, 2>>
    ELSE IF "author" \notin DOMAIN item \/ item["author"] = <<>> THEN <<0, 1>>
    ELSE RNorm(Cardinality({pa \in parsed_authors[c] :
                               LowerName(pa) \in FamilyNames(item)}),
               Cardinality(parsed_authors[c]))

\* C15: the author score in every score attached when the loop ends is
\* 0.5 whenever the reference yielded no parsed authors, 0.0 when it
\* yielded authors and the candidate lists none, otherwise the number of
\* parsed surnames found case-insensitively among the candidate's family
\* names divided by the number of parsed surnames; it lies in [0, 1].
AuthorScoreIsShareOfParsedSurnames ==
    \A c \in Calls : \A k \in 1..Len(results[c].items) :
        LET item == heap[results[c].items[k]]
            w == ClaimedWeights(expected_title[c] # <<>>)
            a == ClaimedAuthorScore(c, item)
        IN  (AllScored(c) /\ "_calculated_score" \in DOMAIN item)
            => /\ <<item["_calculated_score"][1], item["_calculated_score"][2]>>
                    = RAdd(RAdd(RMul(w[1], TitleScore(item, title_to_match_against[c])),
                                RMul(w[2], a)),
                           RMul(w[3], YearScore(item, parsed_year[c])))
               /\ 0 <= a[1] /\ a[1] <= a[2]

\* One of two parsed surnames is found, in another case, among the
\* family names of the selected candidate.
PartialAuthorMatchReached ==
    \E c \in Calls :
        /\ pc[c] = "Done"
        /\ Cardinality(parsed_authors[c]) = 2
        /\ best_match_item[c] # 0
        /\ Get(Selected(c), "author", <<>>) = <<[family |-> "LI"]>>
        /\ ClaimedAuthorScore(c, Selected(c)) = <<1, 2>>

\* C19: a call contacts the registry at most twice and never retries:
\* one search request with row count 5, issued after parsing and before
\* any scoring, and at most one citation fetch, issued only after the
\* search returned candidates, all were scored and the best score reached
\* the threshold with a DOI present; nothing follows an Absent result.
AtMostOneSearchAndOneFetch ==
    \A c \in Calls :
        pc[c] # "Idle"
        => /\ pc[c] \in {"Parsing", "Querying"} <=> requests_log = <<>>
           /\ Len(SearchRequests) <= 1
           /\ Len(CitationRequests) <= 1
           /\ requests_log # <<>>
                => /\ requests_log[1].op = "search"
                   /\ requests_log[1].params["rows"] = 5
           /\ pc[c] \in {"Scoring", "Deciding", "Fetching"} => Len(requests_log) = 1
           /\ CitationRequests # <<>>
                => /\ Ended(c)
                   /\ GotCandidates(c)
                   /\ idx[c] = Len(results[c].items) + 1
                   /\ FGeq(highest_overall_score[c], Score065)
                   /\ SelectedHasDoi(c)
                   /\ requests_log[2] = CitationRequest(Selected(c)["DOI"])
           /\ GotNothing(c) => Len(requests_log) = 1

\* The search and then the citation fetch were issued, and the fetch
\* returned Absent.
BothRequestsReached ==
    \E c \in Calls :
        /\ Ended(c)
        /\ Len(requests_log) = 2
        /\ requests_log[1].op = "search"
        /\ requests_log[2].op = "citation"
        /\ citation[c] = None

\* Both other signals contradict: the reference yields an author and a
\* year, the candidate matches none of the authors and has another year
\* or none.
Contradicted(c, item) ==
    /\ parsed_authors[c] # {}
    /\ parsed_year[c] # None
    /\ \A pa \in parsed_authors[c] : LowerName(pa) \notin FamilyNames(item)
    /\ FirstCarriedYear(item) # parsed_year[c]

\* C20: when the reference yields an author and a year and every
\* candidate matches none of the authors and has a different or no year,
\* the best score is at most 0.6 (expected title supplied) or 0.4 (title
\* parsed), below 0.65, and the call ends in LowConfidence.
TitleAloneIsLowConfidence ==
    \A c \in Calls :
        (/\ Ended(c)
         /\ GotCandidates(c)
         /\ \A k \in 1..Len(results[c].items) :
               Contradicted(c, heap[results[c].items[k]]))
        => /\ FGeq(IF expected_title[c] # <<>> THEN <<6, 10, 0>> ELSE <<4, 10, 0>>,
                   highest_overall_score[c])
           /\ FLess(highest_overall_score[c], Score065)
           /\ outcome[c].tag = "LowConfidence"

\* C6: every call passes Parsing, Querying, Scoring, Deciding in that
\* order and ends in one of the five outcome variants; after a non-empty
\* search result the fallback result is never returned.
EndsInOneOfFiveVariants ==
    \A c \in Calls :
        /\ Ended(c) =>
             /\ outcome[c].tag \in FiveVariants
             /\ \A i, j \in 1..Len(path[c]) :
                   (path[c][i] = "Scoring" /\ path[c][j] = "Deciding") => i < j
        /\ GotCandidates(c) /\ pc[c] \notin {"Scoring"} => best_match_item[c] # 0

\* C7: whatever the registry returned and whatever the citation fetch
\* returned, no exception escapes the call.
NoExceptionEscapes ==
    \A c \in Calls : pc[c] # "Raised"

-----------------------------------------------------------------------------
(* Properties of _parse_year_from_reference, checked under SpecParseYear *)

\* The positions of the opening parentheses of "(dddd)" in s.
ParenthesizedAt(s) ==
    {i \in 1..(Len(s) - 5) :
        /\ s[i] = "("
        /\ \A k \in 1..4 : IsDigit(s[i + k])
        /\ s[i + 5] = ")"}

HasFourDigits(s) ==
    \E i \in 1..(Len(s) - 3) : \A k \in 0..3 : IsDigit(s[i + k])

\* The positions of the standalone 4-digit numbers of s whose value lies
\* strictly between 1700 and 2100 and which no digit precedes.
PlausibleAt(s) ==
    {i \in BoundedMatches(s) :
        /\ 1700 < IntOf(SubSeq(s, i, i + 3))
        /\ IntOf(SubSeq(s, i, i + 3)) < 2100
        /\ ~(i >= 2 /\ IsDigit(s[i - 1]))}

\* C17: a string containing a 4-digit number enclosed in parentheses gives
\* the first such year, also when an unparenthesised 4-digit number comes
\* earlier; a string without four consecutive digits gives none.
ParenthesizedYearWins ==
    year_pc = "Done"
    => /\ ParenthesizedAt(year_ref) # {}
          => LET i == Leftmost(ParenthesizedAt(year_ref))
             IN  year_result = YearFound(SubSeq(year_ref, i + 1, i + 4))
       /\ ~HasFourDigits(year_ref) => year_result = YearNone

\* A plausible standalone year precedes a different parenthesised year,
\* and the parenthesised one is returned.
ParenthesizedAfterBareReached ==
    /\ year_pc = "Done"
    /\ ParenthesizedAt(year_ref) # {}
    /\ PlausibleAt(year_ref) # {}
    /\ Leftmost(PlausibleAt(year_ref)) < Leftmost(ParenthesizedAt(year_ref))
    /\ ~year_result.none
    /\ year_result.year # SubSeq(year_ref, Leftmost(PlausibleAt(year_ref)),
                                 Leftmost(PlausibleAt(year_ref)) + 3)

\* C18: without a parenthesised year, a year is returned whenever the
\* string contains a standalone 4-digit number strictly between 1700 and
\* 2100 that no digit precedes, also after an earlier standalone number
\* outside that range; a returned year is never preceded by a digit.
FallbackFindsPlausibleYear ==
    (year_pc = "Done" /\ ParenthesizedAt(year_ref) = {})
    => /\ PlausibleAt(year_ref) # {} => ~year_result.none
       /\ ~year_result.none
             => \E i \in 1..(Len(year_ref) - 3) :
                   /\ SubSeq(year_ref, i, i + 3) = year_result.year
                   /\ ~(i >= 2 /\ IsDigit(year_ref[i - 1]))

-----------------------------------------------------------------------------
(* Properties of concurrent calls, checked under SpecConcurrent *)

\* C11: two calls running concurrently, also when the registry hands both
\* the same candidate objects, each end as they would alone: the selected
\* candidate, the reported score and the decision against the threshold
\* are those of the call's own inputs.
ConcurrentCallsEndAsAlone ==
    \A c \in Calls :
        (pc[c] = "Done" /\ GotCandidates(c))
        => LET score == AloneScores(c)
               first == FirstMax(score)
           IN  /\ best_match_item[c] = results[c].items[first]
               /\ outcome[c].tag = "LowConfidence" <=> FLess(score[first], Score065)
               /\ "score" \in DOMAIN outcome[c]
                     => outcome[c].score = Hundredths(score[first])

-----------------------------------------------------------------------------
(* Properties of get_new_works, checked under SpecNewWorks *)

\* The recognised dateKind values the claims name.
RecognizedDateKinds == {"from-created-date", "from-update-date", "from-index-date"}

ValidNewWorksInput ==
    /\ search_criteria_params.kind = "dict"
    /\ date_type \in RecognizedDateKinds

\* The filter string of the request the registry received.
RequestFilter(r) == Get(r.params, "filter", <<>>)

Occurrences(seq, x) == Cardinality({i \in 1..Len(seq) : seq[i] = x})

\* C8: for valid input, the filter string of the request handed to the
\* registry contains exactly one clause <dateKind>:<sinceTimestamp>.
DateFilterReachesRegistry ==
    (gnw_pc = "Done" /\ ValidNewWorksInput)
    => /\ Len(requests_log) = 1
       /\ Occurrences(RequestFilter(requests_log[1]),
                      Clause(date_type, since_datetime_str)) = 1

\* C9: the final filter string contains no clause with a known
\* date-filter prefix other than the appended from-<dateKind>-date clause.
NoOtherDateClause ==
    (gnw_pc = "Done" /\ ValidNewWorksInput)
    => \A r \in {requests_log[i] : i \in 1..Len(requests_log)} :
          \A k \in 1..Len(RequestFilter(r)) :
              (\E prefix \in conflicting_date_prefixes :
                    StartsWith(RequestFilter(r)[k], prefix))
              => RequestFilter(r)[k] = Clause(date_type, since_datetime_str)

\* rowLimit clamped to [1, 1000].
Clamped(rowLimit) ==
    IF rowLimit < 1 THEN 1 ELSE IF rowLimit > 1000 THEN 1000 ELSE rowLimit

\* C16: the rows parameter of a request built by _build_api_params is the
\* row limit clamped to [1, 1000], whichever criteria fields are populated.
RowsAreClamped ==
    \A i \in 1..Len(requests_log) :
        requests_log[i].op = "search"
        => /\ requests_log[i].params["rows"] = Clamped(rows)
           /\ requests_log[i].params["rows"] \in 1..1000

\* A request was built with a row limit outside [1, 1000].
RowsClampedReached ==
    /\ gnw_pc = "Done"
    /\ rows \in {-3, 0, 1001, 5000}
    /\ Len(requests_log) = 1
    /\ requests_log[1].params["rows"] = IF rows < 1 THEN 1 ELSE 1000

\* C21: the caller's base criteria mapping has, at every point of a call
\* and after it (whether it succeeded, failed on input validation or got
\* an Absent registry result), the keys and values it was passed with;
\* the filter, sort and order additions are on the copy only, and a sort
\* the caller specified stays, with its order, as the caller gave it.
CallerCriteriaUntouched ==
    /\ caller_criteria = search_criteria_params
    /\ (gnw_pc \in {"Searching", "Done"} /\ ValidNewWorksInput)
         => LET given == search_criteria_params.map
                local == params_for_new_works
            IN  /\ DOMAIN local = DOMAIN given \cup
                        (IF "sort" \in DOMAIN given THEN {"filter"}
                         ELSE {"filter", "sort", "order"})
                /\ \A k \in DOMAIN given \ {"filter", "order"} : local[k] = given[k]
                /\ local["filter"][Len(local["filter"])]
                        = Clause(date_type, since_datetime_str)
                /\ "sort" \in DOMAIN given
                     => /\ "order" \in DOMAIN local <=> "order" \in DOMAIN given
                        /\ "order" \in DOMAIN given => local["order"] = given["order"]
                /\ "sort" \notin DOMAIN given
                     => /\ local["sort"] = sort_field_map[date_type]
                        /\ local["order"] = "asc"

\* A call on a mapping with its own sort and no filter ended with an
\* Absent registry result: the copy got the filter, the caller's mapping
\* did not.
CopyDiffersFromCallerReached ==
    /\ gnw_pc = "Done"
    /\ ValidNewWorksInput
    /\ gnw_result = [tag |-> "None"]
    /\ "sort" \in DOMAIN caller_criteria.map
    /\ "order" \notin DOMAIN caller_criteria.map
    /\ "filter" \notin DOMAIN caller_criteria.map
    /\ "filter" \in DOMAIN params_for_new_works
    /\ "order" \notin DOMAIN params_for_new_works

\* C10: a dateKind outside the three recognised values, or base criteria
\* that is not a mapping, makes get_new_works return None without raising
\* and without any registry request.
InvalidInputReturnsNone ==
    (gnw_pc \notin {"Idle", "Called"} /\ ~ValidNewWorksInput)
    => /\ gnw_pc = "Done"
       /\ gnw_result = [tag |-> "None"]
       /\ requests_log = <<>>

InvalidDateKindReached ==
    /\ gnw_pc = "Done"
    /\ search_criteria_params.kind = "dict"
    /\ date_type \notin RecognizedDateKinds
    /\ gnw_result = [tag |-> "None"]

====
